---- MODULE Spec2Model ----
(***************************************************************************)
(* Model of process_all_unread_emails.py: the page loop of main, the       *)
(* Gmail list/get/modify calls, the parsing of a message into a record,    *)
(* the evaluation of a record by the chat-completion oracle and the run    *)
(* statistics.                                                             *)
(*                                                                         *)
(* Python values are represented as follows: a str is a sequence of        *)
(* symbols, one per character where the characters matter (the message     *)
(* body, the oracle's answer) and a single symbol where the str is opaque  *)
(* (a header value, a page token); None is a one-symbol sequence that no   *)
(* str of the model equals; a label id and a dict key are TLA+ strings; a  *)
(* dict is a function on its keys ({} is the function with the empty       *)
(* domain). A function that can raise returns                              *)
(* [kind |-> "return", value |-> v] or [kind |-> "raise", exc |-> e].      *)
(***************************************************************************)
EXTENDS Integers, Sequences, FiniteSets, TLC

\* ------------------------------------------------------------------ bounds
\* Messages in the mailbox that bear UNREAD when the run starts.
NumMsgs == 3
\* The mailbox API hands out at most this many pages before it stops
\* returning a nextPageToken.
MaxPages == 3
\* Largest number of references on one page.
MaxPageLen == 2
\* Longest body drawn when evaluate_email is exercised on its own.
MaxBodyLen == 3

\* ------------------------------------------------------- program constants
\* evaluate_email's default for MAX_EMAIL_LEN.
DEFAULT_MAX_EMAIL_LEN == 5000

None == <<"<None>">>

MsgIds == 1..NumMsgs

Min(a, b) == IF a <= b THEN a ELSE b

\* ------------------------------------------------------------ str helpers
Str_True == <<"T", "r", "u", "e">>
Ellipsis == <<".", ".", ".">>

\* The characters str.strip() removes (those of the model's alphabet).
Whitespace == {" ", "\n", "\t"}

RECURSIVE lstrip(_)
lstrip(s) ==
    IF s # <<>> /\ Head(s) \in Whitespace THEN lstrip(Tail(s)) ELSE s

RECURSIVE rstrip(_)
rstrip(s) ==
    IF s # <<>> /\ s[Len(s)] \in Whitespace
    THEN rstrip(SubSeq(s, 1, Len(s) - 1))
    ELSE s

\* str.strip()
strip(s) == rstrip(lstrip(s))

\* s is t with whitespace before and after it.
TrimsTo(s, t) ==
    \E a \in 0..Len(s), b \in 0..Len(s) :
        /\ a + Len(t) + b = Len(s)
        /\ \A j \in 1..a : s[j] \in Whitespace
        /\ \A j \in (Len(s) - b + 1)..Len(s) : s[j] \in Whitespace
        /\ \A j \in 1..Len(t) : s[a + j] = t[j]

\* s[:n] for n >= 0
Prefix(s, n) == SubSeq(s, 1, Min(Len(s), n))

\* ------------------------------------------------------------ dict helpers
EmptyDict == [k \in {} |-> None]

\* dict.get(k, default)
Get(d, k, default) == IF k \in DOMAIN d THEN d[k] ELSE default

Return(v) == [kind |-> "return", value |-> v]
Raise(e) == [kind |-> "raise", exc |-> e]

\* ------------------------------------------------- the mailbox API's data
\* The opaque nextPageToken the API hands out with its j-th page.
Token(j) == <<ToString(j)>>

\* A message reference as messages.list returns it.
MessageRef(id) == [id |-> id, threadId |-> id]

RECURSIVE Refs(_, _)
Refs(first, n) ==
    IF n = 0 THEN <<>> ELSE <<MessageRef(first)>> \o Refs(first + 1, n - 1)

\* What users().messages().list(...).execute() can do when `served` pages
\* were served before and `next` is the first id not yet listed: raise, or
\* return a dict with up to MaxPageLen references ("messages" is left out of
\* an empty result, or is an empty list) and with or without nextPageToken.
ListOutcomes(served, next) ==
    {[kind |-> "exception"]}
    \cup
    { [kind |-> "ok", results |-> m @@ t] :
        m \in UNION { IF n = 0
                      THEN {EmptyDict, "messages" :> <<>>}
                      ELSE {"messages" :> Refs(next, n)} :
                      n \in 0..Min(MaxPageLen, NumMsgs - next + 1) },
        t \in {EmptyDict} \cup
              (IF served + 1 < MaxPages
               THEN {"nextPageToken" :> Token(served + 1)}
               ELSE {}) }

\* Header lists of a message: any selection of these, in this order.
AllHeaders ==
    << [name |-> "Subject", value |-> <<"hello">>],
       [name |-> "To",      value |-> <<"me@x">>],
       [name |-> "subject", value |-> <<"lower-case">>],
       [name |-> "From",    value |-> <<"you@y">>],
       [name |-> "Cc",      value |-> <<"them@z">>] >>

RECURSIVE Pick(_, _, _)
Pick(seq, S, i) ==
    IF i > Len(seq) THEN <<>>
    ELSE (IF i \in S THEN <<seq[i]>> ELSE <<>>) \o Pick(seq, S, i + 1)

HeaderLists == { Pick(AllHeaders, S, 1) : S \in SUBSET (1..Len(AllHeaders)) }

\* base64.urlsafe_b64decode(data.encode("ASCII")).decode("utf-8") on the
\* part data of the model: "aGk=" is "hi"; "aGk" lacks its padding
\* (binascii.Error); "_w==" is the byte 0xFF, which is not UTF-8.
EncodedData == {"", "aGk=", "aGk", "_w=="}

b64decode_utf8(data) ==
    CASE data = ""     -> Return(<<>>)
      [] data = "aGk=" -> Return(<<"h", "i">>)
      [] data = "aGk"  -> Raise("binascii.Error")
      [] data = "_w==" -> Raise("UnicodeDecodeError")

PlainPart(body) == [mimeType |-> "text/plain", body |-> body]
HtmlPart == [mimeType |-> "text/html", body |-> ("data" :> "aGk=")]

PartBodies == {EmptyDict} \cup { "data" :> d : d \in EncodedData }

PartLists ==
    {<<>>, <<HtmlPart>>}
    \cup { <<PlainPart(b)>> : b \in PartBodies }
    \cup { <<HtmlPart, PlainPart(b)>> : b \in PartBodies }
    \cup { <<PlainPart("data" :> "aGk="), PlainPart(b)>> : b \in PartBodies }

Payloads ==
    { [headers |-> h] : h \in HeaderLists }
    \cup { [headers |-> h, parts |-> p] : h \in HeaderLists, p \in PartLists }

\* What users().messages().get(id, format="full").execute() can do for a
\* message whose labels are `labelIds`.
GetOutcomes(labelIds) ==
    {[kind |-> "exception"]}
    \cup { [kind |-> "ok", msg |-> [payload |-> p, labelIds |-> labelIds]] :
           p \in Payloads }

\* What client.chat.completions.create(...) can do: raise, or return a
\* completion whose choices[0].message.content is a str, or is None (the
\* API's value for a message that carries no text).
OracleTexts ==
    { Str_True,
      <<" ">> \o Str_True,
      Str_True \o <<"\n">>,
      <<"\t">> \o Str_True \o <<" ", "\n">>,
      <<"t", "r", "u", "e">>,
      <<"F", "a", "l", "s", "e">>,
      <<"T", "r", "u">>,
      <<"T", "r", " ", "u", "e">>,
      <<" ">>,
      <<>> }

OracleOutcomes ==
    {[kind |-> "exception"], [kind |-> "ok", content |-> None]}
    \cup { [kind |-> "ok", content |-> t] : t \in OracleTexts }

\* The oracle was not asked.
NoReply == [kind |-> "not_called"]

\* What users().messages().modify(...).execute() can do: return, or raise
\* with the label change made or not made on the server.
ModifyOutcomes ==
    { [kind |-> "ok", applied |-> TRUE],
      [kind |-> "exception", applied |-> TRUE],
      [kind |-> "exception", applied |-> FALSE] }

\* -------------------------------------------------------------- functions
\* Mutant of fetch_emails: the except branch returns the token it was given.
fetch_emails_keeps_token(page_token, outcome) ==
    IF outcome.kind = "exception"
    THEN <<<<>>, page_token>>
    ELSE <<Get(outcome.results, "messages", <<>>),
           Get(outcome.results, "nextPageToken", None)>>

\* fetch_emails(gmail, page_token) after the list call returned or raised
\* `outcome`: the pair (messages, page_token) it returns.
fetch_emails(page_token, outcome) ==
    IF outcome.kind = "exception"
    THEN <<<<>>, None>>
    ELSE <<Get(outcome.results, "messages", <<>>),
           Get(outcome.results, "nextPageToken", None)>>

\* next(header["value"] for header in headers if header["name"] == name):
\* the first match, or StopIteration.
next_header(headers, name) ==
    LET hits == { i \in 1..Len(headers) : headers[i].name = name }
    IN  IF hits = {}
        THEN Raise("StopIteration")
        ELSE Return(headers[CHOOSE i \in hits : \A j \in hits : i <= j].value)

\* next((...), None): the first match, or None.
next_header_or_none(headers, name) ==
    LET r == next_header(headers, name)
    IN  IF r.kind = "raise" THEN None ELSE r.value

\* The for/else over the parts: the decoded data of the first text/plain
\* part, "" when there is none. The decoding is outside every try.
extract_body(payload) ==
    LET parts == Get(payload, "parts", <<>>)
        plain == { i \in 1..Len(parts) : parts[i].mimeType = "text/plain" }
    IN  IF plain = {}
        THEN Return(<<>>)
        ELSE LET first == CHOOSE i \in plain : \A j \in plain : i <= j
             IN  b64decode_utf8(Get(parts[first].body, "data", ""))

\* parse_email_data after the get call returned or raised `outcome`.
parse_email_data(outcome) ==
    IF outcome.kind = "exception"
    THEN Return(EmptyDict)
    ELSE LET msg     == outcome.msg
             headers == msg.payload.headers
             subject == next_header(headers, "Subject")
             to      == next_header(headers, "To")
             sender  == next_header(headers, "From")
             cc      == next_header_or_none(headers, "Cc")
             body    == extract_body(msg.payload)
         IN  IF "raise" \in {subject.kind, to.kind, sender.kind}
             THEN Return(EmptyDict)
             ELSE IF body.kind = "raise"
             THEN body
             ELSE Return([subject |-> subject.value,
                          to      |-> to.value,
                          from    |-> sender.value,
                          cc      |-> cc,
                          labels  |-> msg.labelIds,
                          body    |-> body.value])

\* Mutant of truncate_body: >= in place of >.
truncate_body_at_limit(body, MAX_EMAIL_LEN) ==
    Prefix(body, MAX_EMAIL_LEN)
        \o (IF Len(body) >= MAX_EMAIL_LEN THEN Ellipsis ELSE <<>>)

\* email_data["body"][:MAX_EMAIL_LEN] + ("..." if len(...) > MAX_EMAIL_LEN else "")
truncate_body(body, MAX_EMAIL_LEN) ==
    Prefix(body, MAX_EMAIL_LEN)
        \o (IF Len(body) > MAX_EMAIL_LEN THEN Ellipsis ELSE <<>>)

\* The keys the user message reads besides "body".
UserMessageKeys == {"subject", "to", "from", "cc", "labels"}

\* The content of the user message, one <<field, value>> pair per line.
user_message(email_data, truncated_body) ==
    << <<"Subject", email_data["subject"]>>,
       <<"To", email_data["to"]>>,
       <<"From", email_data["from"]>>,
       <<"Cc", email_data["cc"]>>,
       <<"Gmail labels", email_data["labels"]>>,
       <<"Body", truncated_body>> >>

\* Mutant of evaluate_email_request: no "body" check, keys read with a
\* fallback, so the oracle is asked about every record.
evaluate_email_request_unguarded(email_data, MAX_EMAIL_LEN) ==
    [kind |-> "request",
     content |-> << <<"Subject", Get(email_data, "subject", None)>>,
                    <<"To", Get(email_data, "to", None)>>,
                    <<"From", Get(email_data, "from", None)>>,
                    <<"Cc", Get(email_data, "cc", None)>>,
                    <<"Gmail labels", Get(email_data, "labels", {})>>,
                    <<"Body", truncate_body(Get(email_data, "body", <<>>),
                                            MAX_EMAIL_LEN)>> >>]

\* Mutant of evaluate_email_request: the else branch of the "body" check
\* returns True.
evaluate_email_request_true_without_body(email_data, MAX_EMAIL_LEN) ==
    IF "body" \notin DOMAIN email_data
    THEN Return(TRUE)
    ELSE IF ~(UserMessageKeys \subseteq DOMAIN email_data)
    THEN Raise("KeyError")
    ELSE [kind |-> "request",
          content |-> user_message(email_data,
                         truncate_body(email_data["body"], MAX_EMAIL_LEN))]

\* How far evaluate_email gets before the oracle is asked: a return of
\* False for a dict without "body", a KeyError for a dict with "body" that
\* lacks a key the user message reads, else the request it sends.
evaluate_email_request(email_data, MAX_EMAIL_LEN) ==
    IF "body" \notin DOMAIN email_data
    THEN Return(FALSE)
    ELSE IF ~(UserMessageKeys \subseteq DOMAIN email_data)
    THEN Raise("KeyError")
    ELSE [kind |-> "request",
          content |-> user_message(email_data,
                         truncate_body(email_data["body"], MAX_EMAIL_LEN))]

\* Mutant of evaluate_email_reply: True returned from the except branch.
evaluate_email_reply_true_on_exception(reply) ==
    IF reply.kind = "exception"
    THEN Return(TRUE)
    ELSE IF reply.content = None
    THEN Raise("AttributeError")
    ELSE Return(strip(reply.content) = Str_True)

\* completion.choices[0].message.content.strip() == "True", with the
\* except branch around the create call; None has no strip.
evaluate_email_reply(reply) ==
    IF reply.kind = "exception"
    THEN Return(FALSE)
    ELSE IF reply.content = None
    THEN Raise("AttributeError")
    ELSE Return(strip(reply.content) = Str_True)

\* evaluate_email, `reply` being what the oracle does if it is asked.
evaluate_email(email_data, MAX_EMAIL_LEN, reply) ==
    LET req == evaluate_email_request(email_data, MAX_EMAIL_LEN)
    IN  IF req.kind = "request" THEN evaluate_email_reply(reply) ELSE req

\* The replies evaluate_email can meet on email_data.
RepliesFor(email_data, MAX_EMAIL_LEN) ==
    IF evaluate_email_request(email_data, MAX_EMAIL_LEN).kind = "request"
    THEN OracleOutcomes
    ELSE {NoReply}

\* Mutant of next_page_token: the returned token is dropped.
next_page_token_kept(page_token, returned) == page_token

\* main, line 363: `messages, page_token = fetch_emails(...)` binds
\* page_token to the second element of what fetch_emails returned.
next_page_token(page_token, returned) == returned

\* Mutant of for_loop_next: the last reference of a page is left out.
for_loop_next_skips_last(i, messages) ==
    IF i < Len(messages) - 1 THEN "parse" ELSE "check_token"

\* main, line 368: `for message_info in messages` takes the next reference
\* after the i-th, or is exhausted.
for_loop_next(i, messages) ==
    IF i < Len(messages) THEN "parse" ELSE "check_token"

\* Mutant of count_unread: = in place of +=.
count_unread_overwritten(total_unread_emails, messages) == Len(messages)

\* main's total_unread_emails += len(messages)
count_unread(total_unread_emails, messages) ==
    total_unread_emails + Len(messages)

\* Mutant of process_email_branch: the modify call outside the if.
process_email_branch_unconditional(ended) ==
    IF ended \in {"True", "False"} THEN "modify" ELSE "crashed"

\* process_email's if on evaluate_email's result `ended`: where it goes.
process_email_branch(ended) ==
    CASE ended = "True"  -> "modify"
      [] ended = "False" -> "accumulate"
      [] OTHER           -> "crashed"

\* Mutant of mark_read_result: the return 1 after the try statement.
mark_read_result_always_one(outcome) == 1

\* process_email's try around modify: 1 when the call returned, else 0.
mark_read_result(outcome) == IF outcome.kind = "ok" THEN 1 ELSE 0

\* The labels of a message after modify with removeLabelIds.
remove_labels(labelIds, removeLabelIds) == labelIds \ removeLabelIds

\* Mutant of RemoveLabelIds: INBOX removed as well.
RemoveLabelIds_with_inbox == {"UNREAD", "INBOX"}

\* The body of process_email's modify request.
RemoveLabelIds == {"UNREAD"}

\* report_statistics: the four numbers it logs.
report_statistics(total_unread_emails, total_pages_fetched, total_marked_as_read) ==
    [total_unread_emails  |-> total_unread_emails,
     total_pages_fetched  |-> total_pages_fetched,
     total_marked_as_read |-> total_marked_as_read,
     final_unread         |-> total_unread_emails - total_marked_as_read]

\* Mutant of not_page_token: the test the other way round.
page_token_present(page_token) == ~(page_token = None \/ page_token = <<>>)

\* `not page_token`: None and the empty str are both false.
not_page_token(page_token) == page_token = None \/ page_token = <<>>

\* How a call of a function ended, as a string: "True", "False" or the
\* name of the exception it raised.
Ended(r) ==
    IF r.kind = "raise" THEN r.exc ELSE IF r.value THEN "True" ELSE "False"

\* Which failure of the error table a get outcome is, "none" if the
\* message parses, "raised" if parse_email_data lets an exception out.
ParseFailure(outcome) ==
    IF outcome.kind = "exception" THEN "MessageFetchFailure"
    ELSE IF parse_email_data(outcome).kind = "raise" THEN "raised"
    ELSE IF DOMAIN parse_email_data(outcome).value = {} THEN "MissingHeaderFailure"
    ELSE "none"

\* ------------------------------------------------------------------ state
VARIABLES
    pc,                    \* where main (or the function under test) stands
    page_token,            \* main's page_token
    messages,              \* main's messages: the references of the page
    i,                     \* position of message_info in messages
    email_data_parsed,     \* the record of the message in hand
    marked,                \* what process_email returned for it
    total_unread_emails,
    total_pages_fetched,
    total_marked_as_read,
    MAX_EMAIL_LEN,         \* evaluate_email's parameter
    exception,             \* the exception that ended the run, or "none"
    report,                \* <<>>, then <<what report_statistics logged>>
    mailbox,               \* the server's labels of each message
    listed,                \* how many ids the server has listed so far
    list_calls,            \* history: every list call, its token and outcome
    parse_failure,         \* history: how parsing the message in hand went
    reply,                 \* history: what the oracle did for it
    request,               \* history: <<>> or <<the user message sent>>
    decision,              \* history: how evaluate_email ended for it
    modify_outcome,        \* history: what the modify call for it did
    tally,                 \* history: counts of calls and of True decisions
    script,                \* <<>>, or the pages and decisions of a scripted run
    get_outcome            \* the get outcome parse_email_data is tried on

vars == <<pc, page_token, messages, i, email_data_parsed, marked,
          total_unread_emails, total_pages_fetched, total_marked_as_read,
          MAX_EMAIL_LEN, exception, report, mailbox, listed, list_calls,
          parse_failure, reply, request, decision, modify_outcome, tally,
          script, get_outcome>>

main_vars == <<page_token, messages, i, total_unread_emails,
               total_pages_fetched, total_marked_as_read>>

\* What no step of main changes: the script of the run, and the outcome
\* parse_email_data is tried on when it is exercised on its own.
setup_vars == <<script, get_outcome>>

\* No get outcome is kept in a run of main.
NoGet == [kind |-> "not_kept"]

\* The variables that describe the message in hand.
NoModify == [kind |-> "not_called", applied |-> FALSE]

InHandCleared ==
    /\ email_data_parsed' = EmptyDict
    /\ marked' = 0
    /\ parse_failure' = "pending"
    /\ reply' = NoReply
    /\ request' = <<>>
    /\ decision' = "pending"
    /\ modify_outcome' = NoModify

message_info == messages[i]

\* The mailbox a run starts on: every message bears UNREAD (list asks for
\* that label); the odd ones bear INBOX too.
InitialMailbox ==
    [m \in MsgIds |-> {"UNREAD"} \cup (IF m % 2 = 1 THEN {"INBOX"} ELSE {})]

\* main up to the loop: no token, zero counters.
Init ==
    /\ pc = "fetch"
    /\ page_token = None
    /\ messages = <<>>
    /\ i = 1
    /\ email_data_parsed = EmptyDict
    /\ marked = 0
    /\ total_unread_emails = 0
    /\ total_pages_fetched = 0
    /\ total_marked_as_read = 0
    /\ MAX_EMAIL_LEN = DEFAULT_MAX_EMAIL_LEN
    /\ exception = "none"
    /\ report = <<>>
    /\ mailbox = InitialMailbox
    /\ listed = 0
    /\ list_calls = <<>>
    /\ parse_failure = "pending"
    /\ reply = NoReply
    /\ request = <<>>
    /\ decision = "pending"
    /\ modify_outcome = NoModify
    /\ tally = [get |-> 0, create |-> 0, true |-> 0, modify |-> 0, modify_ok |-> 0]
    /\ script = <<>>
    /\ get_outcome = NoGet

\* ------------------------------------------------------- a scripted run
\* A run can be given a script: the pages the mailbox serves, each with the
\* decision evaluate_email ends with for each of its references and the
\* nextPageToken of the page. In a scripted run every message parses, the
\* oracle answers so that the decision is the scripted one, and every modify
\* call succeeds.
TwoPages ==
    << [decisions |-> <<TRUE, TRUE, FALSE>>, nextPageToken |-> Token(1)],
       [decisions |-> <<FALSE, FALSE>>,      nextPageToken |-> None] >>

Scripted == script # <<>>

RECURSIVE ScriptSize(_)
ScriptSize(sc) ==
    IF sc = <<>> THEN 0 ELSE Len(Head(sc).decisions) + ScriptSize(Tail(sc))

MailboxOf(ids) ==
    [m \in ids |-> {"UNREAD"} \cup (IF m % 2 = 1 THEN {"INBOX"} ELSE {})]

\* The outcomes of list, get, create and modify a step of main can meet.
ListChoices ==
    IF ~Scripted
    THEN ListOutcomes(Len(list_calls), listed + 1)
    ELSE LET page == script[Len(list_calls) + 1]
         IN  { [kind |-> "ok",
                results |-> ("messages" :> Refs(listed + 1, Len(page.decisions)))
                            @@ (IF page.nextPageToken = None
                                THEN EmptyDict
                                ELSE "nextPageToken" :> page.nextPageToken)] }

GetChoices ==
    IF ~Scripted
    THEN GetOutcomes(mailbox[message_info.id])
    ELSE { o \in GetOutcomes(mailbox[message_info.id]) :
             ParseFailure(o) = "none" }

ReplyChoices ==
    IF ~Scripted
    THEN RepliesFor(email_data_parsed, MAX_EMAIL_LEN)
    ELSE { r \in OracleOutcomes :
             IF script[Len(list_calls)].decisions[i]
             THEN r.kind = "ok" /\ TrimsTo(r.content, Str_True)
             ELSE r.kind = "exception"
                  \/ (r.content # None /\ ~TrimsTo(r.content, Str_True)) }

ModifyChoices ==
    IF ~Scripted
    THEN ModifyOutcomes
    ELSE { o \in ModifyOutcomes : o.kind = "ok" }

\* main about to run on the mailbox of the script TwoPages.
InitScenario ==
    /\ pc = "fetch"
    /\ page_token = None
    /\ messages = <<>>
    /\ i = 1
    /\ email_data_parsed = EmptyDict
    /\ marked = 0
    /\ total_unread_emails = 0
    /\ total_pages_fetched = 0
    /\ total_marked_as_read = 0
    /\ MAX_EMAIL_LEN = DEFAULT_MAX_EMAIL_LEN
    /\ exception = "none"
    /\ report = <<>>
    /\ mailbox = MailboxOf(1..ScriptSize(TwoPages))
    /\ listed = 0
    /\ list_calls = <<>>
    /\ parse_failure = "pending"
    /\ reply = NoReply
    /\ request = <<>>
    /\ decision = "pending"
    /\ modify_outcome = NoModify
    /\ tally = [get |-> 0, create |-> 0, true |-> 0, modify |-> 0, modify_ok |-> 0]
    /\ script = TwoPages
    /\ get_outcome = NoGet

\* ---------------------------------------------------------------- actions
\* main, lines 363-367: fetch a page, count it and its references, and
\* enter the for loop (or skip it when the page is empty).
FetchPage ==
    /\ pc = "fetch"
    /\ \E outcome \in ListChoices :
         LET r == fetch_emails(page_token, outcome)
         IN  /\ messages' = r[1]
             /\ page_token' = next_page_token(page_token, r[2])
             /\ total_pages_fetched' = total_pages_fetched + 1
             /\ total_unread_emails' = count_unread(total_unread_emails, r[1])
             /\ listed' = listed + Len(r[1])
             /\ list_calls' = Append(list_calls,
                                [page_token |-> page_token,
                                 kind       |-> outcome.kind,
                                 returned   |-> r[2]])
             /\ i' = 1
             /\ pc' = IF Len(r[1]) > 0 THEN "parse" ELSE "check_token"
    /\ UNCHANGED <<email_data_parsed, marked, total_marked_as_read,
                   MAX_EMAIL_LEN, exception, report, mailbox, parse_failure,
                   reply, request, decision, modify_outcome, tally>>
    /\ UNCHANGED setup_vars

\* main, line 371: parse_email_data on the message in hand. An exception
\* it lets out ends main.
ParseMessage ==
    /\ pc = "parse"
    /\ \E outcome \in GetChoices :
         LET r == parse_email_data(outcome)
         IN  /\ parse_failure' = ParseFailure(outcome)
             /\ IF r.kind = "raise"
                THEN /\ pc' = "crashed"
                     /\ exception' = r.exc
                     /\ UNCHANGED email_data_parsed
                ELSE /\ pc' = "evaluate"
                     /\ email_data_parsed' = r.value
                     /\ UNCHANGED exception
    /\ tally' = [tally EXCEPT !.get = @ + 1]
    /\ UNCHANGED <<main_vars, marked, MAX_EMAIL_LEN, report, mailbox, listed,
                   list_calls, reply, request, decision, modify_outcome>>
    /\ UNCHANGED setup_vars

\* What evaluate_email does to the history of the message in hand.
EvaluateEffect(r) ==
    LET req == evaluate_email_request(email_data_parsed, MAX_EMAIL_LEN)
        asked == req.kind = "request"
    IN  /\ reply' = r
        /\ request' = IF asked THEN <<req.content>> ELSE <<>>
        /\ decision' = Ended(evaluate_email(email_data_parsed, MAX_EMAIL_LEN, r))
        /\ tally' = [tally EXCEPT
                       !.create = @ + (IF asked THEN 1 ELSE 0),
                       !.true = @ + (IF decision' = "True" THEN 1 ELSE 0)]

\* process_email, lines 292-300 and 313-317: evaluate the record; on False
\* return 0, on True go on to modify. An exception evaluate_email lets out
\* ends main.
EvaluateMessage ==
    /\ pc = "evaluate"
    /\ \E r \in ReplyChoices : EvaluateEffect(r)
    /\ pc' = process_email_branch(decision')
    /\ exception' = IF decision' \in {"True", "False"} THEN exception ELSE decision'
    /\ marked' = 0
    /\ UNCHANGED <<main_vars, email_data_parsed, MAX_EMAIL_LEN, report, mailbox,
                   listed, list_calls, parse_failure, modify_outcome>>
    /\ UNCHANGED setup_vars

\* process_email, lines 304-312: the modify call that removes UNREAD, and
\* the return of 1 when it succeeded and of 0 when it raised.
MarkRead ==
    /\ pc = "modify"
    /\ \E outcome \in ModifyChoices :
         /\ modify_outcome' = outcome
         /\ mailbox' = IF outcome.applied
                       THEN [mailbox EXCEPT ![message_info.id] =
                               remove_labels(@, RemoveLabelIds)]
                       ELSE mailbox
         /\ marked' = mark_read_result(outcome)
         /\ tally' = [tally EXCEPT
                        !.modify = @ + 1,
                        !.modify_ok = @ + (IF outcome.kind = "ok" THEN 1 ELSE 0)]
    /\ pc' = "accumulate"
    /\ UNCHANGED <<main_vars, email_data_parsed, MAX_EMAIL_LEN, exception,
                   report, listed, list_calls, parse_failure, reply, request,
                   decision>>
    /\ UNCHANGED setup_vars

\* main, lines 368 and 374: add process_email's result and take the next
\* reference of the page, if any.
Accumulate ==
    /\ pc = "accumulate"
    /\ total_marked_as_read' = total_marked_as_read + marked
    /\ i' = i + 1
    /\ pc' = for_loop_next(i, messages)
    /\ InHandCleared
    /\ UNCHANGED <<page_token, messages, total_unread_emails,
                   total_pages_fetched, MAX_EMAIL_LEN, exception, report,
                   mailbox, listed, list_calls, tally>>
    /\ UNCHANGED setup_vars

\* main, lines 384-386: leave the loop when there is no page token.
CheckToken ==
    /\ pc = "check_token"
    /\ pc' = IF not_page_token(page_token) THEN "report" ELSE "fetch"
    /\ UNCHANGED <<main_vars, email_data_parsed, marked, MAX_EMAIL_LEN,
                   exception, report, mailbox, listed, list_calls,
                   parse_failure, reply, request, decision, modify_outcome,
                   tally>>
    /\ UNCHANGED setup_vars

\* main, lines 388-389: report the statistics and finish.
Report ==
    /\ pc = "report"
    /\ report' = <<report_statistics(total_unread_emails, total_pages_fetched,
                                     total_marked_as_read)>>
    /\ pc' = "done"
    /\ UNCHANGED <<main_vars, email_data_parsed, marked, MAX_EMAIL_LEN,
                   exception, mailbox, listed, list_calls, parse_failure,
                   reply, request, decision, modify_outcome, tally>>
    /\ UNCHANGED setup_vars

Next ==
    \/ FetchPage
    \/ ParseMessage
    \/ EvaluateMessage
    \/ MarkRead
    \/ Accumulate
    \/ CheckToken
    \/ Report

Spec == Init /\ [][Next]_vars

\* main runs to its end: no step that can be taken is put off for ever.
\* (The four network calls block; each returns or raises.)
FairSpec == Spec /\ WF_vars(Next)

\* The runs of main on any mailbox of the bounds, and on the mailbox of the
\* script TwoPages.
SpecRuns == (Init \/ InitScenario) /\ [][Next]_vars

\* ------------------------------------------- evaluate_email on its own
\* The dicts evaluate_email is exercised on: every set of keys, bodies of
\* every length up to MaxBodyLen, cc a str or None.
Chars == <<"a", "b", "c", "d", "e">>

BodyOfLen(n) == [j \in 1..n |-> Chars[((j - 1) % Len(Chars)) + 1]]

AllKeys == UserMessageKeys \cup {"body"}

Dicts ==
    { [k \in K |->
         CASE k = "subject" -> <<"hello">>
           [] k = "to"      -> <<"me@x">>
           [] k = "from"    -> <<"you@y">>
           [] k = "cc"      -> cc
           [] k = "labels"  -> {"UNREAD"}
           [] k = "body"    -> BodyOfLen(n)] :
      K \in SUBSET AllKeys, cc \in {None, <<"them@z">>}, n \in 0..MaxBodyLen }

\* A caller about to call evaluate_email(email_data, ..., MAX_EMAIL_LEN=n).
InitEval ==
    /\ pc = "call_evaluate_email"
    /\ email_data_parsed \in Dicts
    /\ MAX_EMAIL_LEN \in 0..MaxBodyLen
    /\ page_token = None
    /\ messages = <<>>
    /\ i = 1
    /\ marked = 0
    /\ total_unread_emails = 0
    /\ total_pages_fetched = 0
    /\ total_marked_as_read = 0
    /\ exception = "none"
    /\ report = <<>>
    /\ mailbox = InitialMailbox
    /\ listed = 0
    /\ list_calls = <<>>
    /\ parse_failure = "pending"
    /\ reply = NoReply
    /\ request = <<>>
    /\ decision = "pending"
    /\ modify_outcome = NoModify
    /\ tally = [get |-> 0, create |-> 0, true |-> 0, modify |-> 0, modify_ok |-> 0]
    /\ script = <<>>
    /\ get_outcome = NoGet

\* The call of evaluate_email, lines 229-266, to its return or exception.
CallEvaluateEmail ==
    /\ pc = "call_evaluate_email"
    /\ \E r \in RepliesFor(email_data_parsed, MAX_EMAIL_LEN) : EvaluateEffect(r)
    /\ pc' = "evaluate_email_ended"
    /\ exception' = IF decision' \in {"True", "False"} THEN exception ELSE decision'
    /\ UNCHANGED <<main_vars, email_data_parsed, marked, MAX_EMAIL_LEN, report,
                   mailbox, listed, list_calls, parse_failure, modify_outcome>>
    /\ UNCHANGED setup_vars

NextEval == CallEvaluateEmail

SpecEval == InitEval /\ [][NextEval]_vars

\* ---------------------------------- parse_email_data and evaluate_email
\* main's lines 371-374 for one reference, on every outcome of the get
\* call: parse_email_data, then (through process_email, line 298)
\* evaluate_email on the record it returned.
InitParse ==
    /\ pc = "call_parse_email_data"
    /\ get_outcome \in UNION { GetOutcomes(InitialMailbox[m]) : m \in MsgIds }
    /\ messages = <<MessageRef(1)>>
    /\ page_token = None
    /\ i = 1
    /\ email_data_parsed = EmptyDict
    /\ marked = 0
    /\ total_unread_emails = 0
    /\ total_pages_fetched = 0
    /\ total_marked_as_read = 0
    /\ MAX_EMAIL_LEN = DEFAULT_MAX_EMAIL_LEN
    /\ exception = "none"
    /\ report = <<>>
    /\ mailbox = InitialMailbox
    /\ listed = 0
    /\ list_calls = <<>>
    /\ parse_failure = "pending"
    /\ reply = NoReply
    /\ request = <<>>
    /\ decision = "pending"
    /\ modify_outcome = NoModify
    /\ tally = [get |-> 0, create |-> 0, true |-> 0, modify |-> 0, modify_ok |-> 0]
    /\ script = <<>>

\* The call of parse_email_data, lines 105-152, to its return or exception.
CallParseEmailData ==
    /\ pc = "call_parse_email_data"
    /\ LET r == parse_email_data(get_outcome)
       IN  /\ parse_failure' = ParseFailure(get_outcome)
           /\ IF r.kind = "raise"
              THEN /\ pc' = "parse_email_data_raised"
                   /\ exception' = r.exc
                   /\ UNCHANGED email_data_parsed
              ELSE /\ pc' = "call_evaluate_email"
                   /\ email_data_parsed' = r.value
                   /\ UNCHANGED exception
    /\ tally' = [tally EXCEPT !.get = @ + 1]
    /\ UNCHANGED <<main_vars, marked, MAX_EMAIL_LEN, report, mailbox, listed,
                   list_calls, reply, request, decision, modify_outcome>>
    /\ UNCHANGED setup_vars

NextParse ==
    \/ CallParseEmailData
    \/ CallEvaluateEmail

SpecParse == InitParse /\ [][NextParse]_vars

\* ----------------------------------------------------------- vocabulary
Last(seq) == seq[Len(seq)]

\* The run has ended: main returned, or an exception ended it.
RunEnded == pc \in {"done", "crashed"}

\* main stands between two messages: no message is in hand.
BetweenMessages == pc \in {"fetch", "check_token", "report", "done"}

\* process_email has returned for the message in hand.
MessageProcessed == pc = "accumulate"

ModifyCalled == modify_outcome.kind # "not_called"

\* The record in hand is the empty record parse_email_data returns for a
\* message it could not fetch or that lacks a required header.
Unparsable ==
    parse_failure \in {"MessageFetchFailure", "MissingHeaderFailure"}

\* ----------------------------------------------------------------- C1
\* C1: for every message reference, modify (removing UNREAD) is called
\* exactly once if evaluate_email returned True for it, and never if it
\* returned False or the record is the empty one: when process_email has
\* returned, modify was called iff the decision was True; modify is never
\* called for a decision other than True or for an unparsable message; and
\* over the run there are as many modify calls as True decisions (one more
\* True decision only while the call for it is about to be made).
C1_MarkReadOncePerTrue ==
    /\ MessageProcessed => (ModifyCalled <=> decision = "True")
    /\ ModifyCalled => decision = "True"
    /\ Unparsable => ~ModifyCalled /\ decision \in {"pending", "False"}
    /\ tally.modify = tally.true - (IF pc = "modify" THEN 1 ELSE 0)

\* process_email has returned for an unparsable message, after a message
\* that was marked read and one the oracle was asked about and kept.
C1_Witness ==
    /\ MessageProcessed
    /\ tally.true >= 1
    /\ tally.modify = tally.true
    /\ tally.create > tally.true
    /\ Unparsable

\* ----------------------------------------------------------------- C2
\* C2: for any record that lacks any of subject, to, from or body,
\* evaluate_email yields False (keep unread), whatever the combination of
\* missing keys, a record with body but without a required header included.
C2_UnclassifiableYieldsFalse ==
    (/\ pc = "evaluate_email_ended"
     /\ ~({"subject", "to", "from", "body"} \subseteq DOMAIN email_data_parsed))
    => decision = "False"

\* ----------------------------------------------------------------- C3
\* C3: evaluate_email returns True iff the oracle's text, trimmed, is
\* exactly "True"; every other outcome of the oracle, a response without
\* text content included, yields False and not an error.
C3_TrueIffTrimmedTrue ==
    reply.kind # "not_called" =>
        /\ decision \in {"True", "False"}
        /\ decision = "True" <=>
              /\ reply.kind = "ok"
              /\ reply.content # None
              /\ TrimsTo(reply.content, Str_True)

\* ----------------------------------------------------------------- C4
\* C4: in every state of a run, total_marked_as_read <= total_unread_emails,
\* so the final unread count that is reported is >= 0.
C4_MarkedAtMostFetched ==
    /\ total_marked_as_read <= total_unread_emails
    /\ report # <<>> => report[1].final_unread >= 0

\* A run of two pages that marked every message it fetched.
C4_Witness ==
    /\ pc = "done"
    /\ total_pages_fetched >= 2
    /\ total_marked_as_read = total_unread_emails
    /\ total_marked_as_read >= 2
    /\ report[1].final_unread = 0

\* ----------------------------------------------------------------- C5
\* The non-None cursors fetch_emails has returned so far.
NonNoneReturned ==
    Cardinality({ j \in 1..Len(list_calls) : list_calls[j].returned # None })

\* C5: pagination stops exactly when a fetch returns no cursor: once the
\* source has returned k cursors and then none, the run ends in Done with
\* exactly k+1 page fetches made.
C5_KPlusOneFetchesThenDone ==
    (/\ RunEnded
     /\ list_calls # <<>>
     /\ Last(list_calls).returned = None)
    => /\ pc = "done"
       /\ Len(list_calls) = NonNoneReturned + 1

\* ----------------------------------------------------------------- C6
\* The last page fetch raised inside fetch_emails.
FetchFailed == list_calls # <<>> /\ Last(list_calls).kind = "exception"

\* C6: a failure of the list call is turned into (no references, no
\* cursor): the failed fetch adds nothing to total_unread_emails or
\* total_marked_as_read, no list, get, create or modify call follows it,
\* and the run goes on to Done and reports its statistics, whatever is
\* left unseen in the mailbox.
C6_FetchFailureEndsRun ==
    /\ [](FetchFailed => /\ messages = <<>>
                         /\ page_token = None
                         /\ pc \in {"check_token", "report", "done"})
    /\ [][FetchFailed' =>
            /\ total_unread_emails' = total_unread_emails
            /\ total_marked_as_read' = total_marked_as_read
            /\ tally' = tally
            /\ FetchFailed => list_calls' = list_calls]_vars
    /\ (FetchFailed ~> (pc = "done" /\ report # <<>>))

\* A run whose second fetch failed has reported, with messages of the
\* mailbox never listed.
C6_Witness ==
    /\ FetchFailed
    /\ pc = "done"
    /\ report # <<>>
    /\ Len(list_calls) >= 2
    /\ total_unread_emails >= 1
    /\ listed < NumMsgs

\* ----------------------------------------------------------------- C7
\* C7: total_marked_as_read grows only by a modify call that succeeded
\* after a True decision; a modify call that raised is returned as 0 and
\* not counted. Between messages and at the end of a run it equals the
\* number of successful modify calls.
C7_CountsOnlySuccessfulMutations ==
    /\ total_marked_as_read + (IF MessageProcessed THEN marked ELSE 0)
          = tally.modify_ok
    /\ marked = 1 => decision = "True" /\ modify_outcome.kind = "ok"
    /\ modify_outcome.kind = "exception" => marked = 0
    /\ (BetweenMessages \/ RunEnded) => total_marked_as_read = tally.modify_ok
    /\ tally.modify_ok <= tally.true

\* A finished run in which one modify call succeeded and another raised.
C7_Witness ==
    /\ pc = "done"
    /\ total_marked_as_read >= 1
    /\ tally.modify > tally.modify_ok
    /\ tally.true > total_marked_as_read

\* ----------------------------------------------------------------- C8
\* C8: the only change a run makes to the mailbox is the removal of UNREAD
\* from a message whose decision was True: a step changes the labels of no
\* message but the one in hand, only after a True decision, and only by
\* taking UNREAD away; a message with a False decision or an empty record,
\* and every message never listed, still bears UNREAD.
C8_OnlyUnreadOfTrueRemoved ==
    /\ [](/\ \A m \in MsgIds : m > listed => "UNREAD" \in mailbox[m]
          /\ (MessageProcessed /\ (decision = "False" \/ Unparsable))
                => "UNREAD" \in mailbox[message_info.id])
    /\ [][\A m \in MsgIds :
            mailbox'[m] # mailbox[m] =>
                /\ pc = "modify"
                /\ decision = "True"
                /\ m = message_info.id
                /\ mailbox'[m] = mailbox[m] \ {"UNREAD"}]_vars

\* A finished run that removed UNREAD from one message and left a message
\* it kept, and one it never listed, as they were.
C8_Witness ==
    /\ pc = "done"
    /\ listed >= 2
    /\ listed < NumMsgs
    /\ \E m \in 1..listed : mailbox[m] = {"INBOX"}
    /\ \E m \in 1..listed : "UNREAD" \in mailbox[m]
    /\ tally.get > tally.true

\* ----------------------------------------------------------------- C9
\* One of the per-message failures the error table calls recovered has
\* happened to the message in hand: the get call raised, a required header
\* is missing, the oracle failed (the create call raised, or its response
\* carries no text), or the modify call raised.
RecoverableFailure ==
    \/ parse_failure \in {"MessageFetchFailure", "MissingHeaderFailure"}
    \/ reply.kind = "exception"
    \/ (reply.kind = "ok" /\ reply.content = None)
    \/ modify_outcome.kind = "exception"

\* C9: no recoverable per-message failure aborts the run: the run is never
\* ended by an exception at a message that met such a failure.
C9_RecoverableFailureNeverAborts ==
    RecoverableFailure => pc # "crashed"

\* ---------------------------------------------------------------- C10
\* C10: when the create call raises, evaluate_email returns False: no
\* modify call is made for the message, process_email returns 0, the
\* message keeps UNREAD, and the step that follows leaves
\* total_marked_as_read and the mailbox as they are.
C10_OracleFailureKeepsUnread ==
    /\ [](reply.kind = "exception" =>
            /\ decision = "False"
            /\ ~ModifyCalled
            /\ marked = 0
            /\ pc = "accumulate"
            /\ "UNREAD" \in mailbox[message_info.id])
    /\ [][reply.kind = "exception" =>
            /\ total_marked_as_read' = total_marked_as_read
            /\ tally'.modify = tally.modify
            /\ mailbox' = mailbox]_vars

\* The create call raised for the second message of a run whose first
\* message was marked read.
C10_Witness ==
    /\ reply.kind = "exception"
    /\ request # <<>>
    /\ MessageProcessed
    /\ total_marked_as_read >= 1

\* ---------------------------------------------------------------- C11
\* C11: for any record without the key "body" - whatever other keys it
\* has, and in particular the empty record parse_email_data returns for an
\* unparsable message - evaluate_email returns False, without an exception
\* and without asking the oracle.
C11_NoBodyYieldsFalse ==
    (pc = "evaluate_email_ended" /\ "body" \notin DOMAIN email_data_parsed)
        => /\ decision = "False"
           /\ exception = "none"
           /\ reply = NoReply
           /\ request = <<>>

\* evaluate_email has returned for a record that has headers but no body.
C11_Witness ==
    /\ pc = "evaluate_email_ended"
    /\ DOMAIN email_data_parsed = UserMessageKeys
    /\ decision = "False"

\* ---------------------------------------------------------------- C12
\* C12: the number of pages main counts is the number of calls of
\* fetch_emails it made, a failed one included, and the number of unread
\* emails it counts is the sum of the lengths of the pages fetch_emails
\* returned; these are the numbers report_statistics is given when the run
\* completes. On the script TwoPages - a page of 3 references with
\* decisions True, True, False, a page of 2 with False, False, every modify
\* succeeding - the run completes with 2 pages, 5 fetched, 2 marked as read
\* and 3 left unread.
C12_CountersAtCompletion ==
    /\ total_pages_fetched = Len(list_calls)
    /\ total_unread_emails = listed
    /\ pc = "done" =>
          /\ report[1].total_pages_fetched = Len(list_calls)
          /\ report[1].total_unread_emails = listed
    /\ Scripted =>
          /\ pc # "crashed"
          /\ pc = "done" =>
                report[1] = [total_pages_fetched  |-> 2,
                             total_unread_emails  |-> 5,
                             total_marked_as_read |-> 2,
                             final_unread         |-> 3]

\* The run on the script TwoPages has completed, after a page of 3 and a
\* page of 2 references.
C12_Witness ==
    /\ Scripted
    /\ pc = "done"
    /\ Len(list_calls) = Len(TwoPages)
    /\ tally.get = ScriptSize(TwoPages)
    /\ tally.modify_ok = 2

\* ---------------------------------------------------------------- C13
\* C13: the body evaluate_email sends to the oracle, for a body of length L
\* and the limit MAX_EMAIL_LEN, is the first min(L, MAX_EMAIL_LEN)
\* characters of the body, followed by "..." if and only if
\* L > MAX_EMAIL_LEN; for L <= MAX_EMAIL_LEN (L = MAX_EMAIL_LEN and L = 0
\* included) it is the body unchanged.
SentBody == request[1][6][2]

EndsWithEllipsis(s) ==
    Len(s) >= 3 /\ \A j \in 0..2 : s[Len(s) - j] = "."

C13_TruncationRule ==
    (pc = "evaluate_email_ended" /\ request # <<>>) =>
        LET body == email_data_parsed["body"]
            L == Len(body)
            kept == Min(L, MAX_EMAIL_LEN)
        IN  /\ request[1][6][1] = "Body"
            /\ \A j \in 1..kept : SentBody[j] = body[j]
            /\ Len(SentBody) = kept + (IF L > MAX_EMAIL_LEN THEN 3 ELSE 0)
            /\ EndsWithEllipsis(SentBody) <=> L > MAX_EMAIL_LEN
            /\ L <= MAX_EMAIL_LEN => SentBody = body

\* A body longer than a positive limit was sent, cut and marked.
C13_Witness ==
    /\ pc = "evaluate_email_ended"
    /\ request # <<>>
    /\ MAX_EMAIL_LEN > 0
    /\ Len(email_data_parsed["body"]) > MAX_EMAIL_LEN
    /\ Len(SentBody) = MAX_EMAIL_LEN + 3

\* ---------------------------------------------------------------- C15
\* C15: pages and messages are taken strictly one after the other. A page
\* is fetched only when every reference of the page before it has been
\* completely processed (parsed, classified and, on True, modified); main
\* moves to the next reference only when process_email has returned for
\* the one in hand; and a message's get is issued only when no other
\* message is in hand, so no two per-message operations overlap.
NothingInHand ==
    /\ parse_failure = "pending"
    /\ reply = NoReply
    /\ request = <<>>
    /\ decision = "pending"
    /\ ~ModifyCalled

InHandDone ==
    /\ parse_failure # "pending"
    /\ decision \in {"True", "False"}
    /\ decision = "True" <=> ModifyCalled

C15_OnePageOneMessageAtATime ==
    /\ [](/\ BetweenMessages => (i = Len(messages) + 1 /\ NothingInHand)
          /\ pc = "parse" => (i \in 1..Len(messages) /\ NothingInHand)
          /\ tally.get = (listed - Len(messages)) + (i - 1)
                            + (IF BetweenMessages \/ pc = "parse" THEN 0 ELSE 1))
    /\ [][/\ Len(list_calls') # Len(list_calls) =>
               /\ i = Len(messages) + 1
               /\ tally.get = listed
               /\ NothingInHand
               /\ i' = 1
          /\ (i' # i /\ Len(list_calls') = Len(list_calls)) =>
               /\ i' = i + 1
               /\ InHandDone
          /\ tally'.get # tally.get =>
               /\ tally'.get = tally.get + 1
               /\ NothingInHand]_vars

\* main is about to fetch the second page, after a first page of two
\* references of which one was marked as read.
C15_Witness ==
    /\ pc = "fetch"
    /\ Len(list_calls) = 1
    /\ Len(messages) = 2
    /\ tally.get = 2
    /\ tally.modify = 1

\* ---------------------------------------------------------------- C16
\* C16: the first fetch of a run is made with no page token, and every
\* later fetch with exactly the token the fetch just before it returned:
\* main holds the token of the last fetch and no other, so no token is
\* used twice, none is skipped, and none is there before the first fetch.
C16_CursorChaining ==
    /\ list_calls = <<>> => page_token = None
    /\ list_calls # <<>> =>
          /\ list_calls[1].page_token = None
          /\ page_token = Last(list_calls).returned
    /\ \A j \in 2..Len(list_calls) :
          /\ list_calls[j].page_token = list_calls[j - 1].returned
          /\ list_calls[j].page_token # None
    /\ \A j, k \in 1..Len(list_calls) :
          j # k => list_calls[j].page_token # list_calls[k].page_token

\* Three fetches were made: with no token, with the token of the first
\* page, with the token of the second.
C16_Witness ==
    /\ Len(list_calls) = 3
    /\ list_calls[1].page_token = None
    /\ list_calls[2].page_token = Token(1)
    /\ list_calls[3].page_token = Token(2)

\* ---------------------------------------------------------------- C17
\* C17: parse_email_data returns the empty record whenever the get call
\* fails or one of the headers Subject, To, From (these exact names) is
\* absent, and returns the full record - the values of the first such
\* headers, Cc or None, the labels, the body - in every other case; a
\* missing Cc never empties the record; and the empty record is kept
\* unread: evaluate_email returns False for it without asking the oracle.
ParseEnded ==
    pc \in {"call_evaluate_email", "parse_email_data_raised",
            "evaluate_email_ended"}

HasHeader(name) ==
    \E j \in 1..Len(get_outcome.msg.payload.headers) :
        get_outcome.msg.payload.headers[j].name = name

FetchOrRequiredHeaderFails ==
    \/ get_outcome.kind = "exception"
    \/ \E name \in {"Subject", "To", "From"} : ~HasHeader(name)

C17_EmptyOrFullRecord ==
    ParseEnded =>
        /\ pc # "parse_email_data_raised"
        /\ FetchOrRequiredHeaderFails => email_data_parsed = EmptyDict
        /\ ~FetchOrRequiredHeaderFails =>
              /\ DOMAIN email_data_parsed = AllKeys
              /\ email_data_parsed["subject"] = <<"hello">>
              /\ email_data_parsed["to"] = <<"me@x">>
              /\ email_data_parsed["from"] = <<"you@y">>
              /\ email_data_parsed["cc"] =
                    (IF HasHeader("Cc") THEN <<"them@z">> ELSE None)
              /\ email_data_parsed["labels"] = get_outcome.msg.labelIds
        /\ (pc = "evaluate_email_ended" /\ email_data_parsed = EmptyDict) =>
              (decision = "False" /\ request = <<>>)

\* ---------------------------------------------------------------- C18
\* C18: whether main leaves the loop depends only on the token the last
\* fetch returned, not on what the page held. After a page the loop goes on
\* to another fetch iff that token is not None: an empty page that came
\* with a token is followed by the fetch of the next page (the step after
\* it leads to the fetch, the step after that is the list call, and both
\* are taken), and the loop is left only after a fetch that returned no
\* token and only when every reference listed, those of that last page
\* included, has been taken through parse and process.
EmptyPageWithToken ==
    /\ pc = "check_token"
    /\ Last(list_calls).kind = "ok"
    /\ Last(list_calls).returned # None
    /\ messages = <<>>

GoingOnToFetch == EmptyPageWithToken \/ (pc = "fetch" /\ list_calls # <<>>)

C19_OracleAtMostOncePerMessage ==
    /\ [](/\ tally.create <= tally.get
          /\ tally.get <= listed
          /\ Len(request) <= 1
          /\ (Unparsable \/ (parse_failure # "pending"
                               /\ email_data_parsed = EmptyDict)) =>
                (request = <<>> /\ reply = NoReply)
          /\ reply # NoReply => request # <<>>)
    /\ [][tally'.create # tally.create =>
            /\ tally'.create = tally.create + 1
            /\ pc = "evaluate"
            /\ request = <<>>
            /\ reply = NoReply
            /\ "body" \in DOMAIN email_data_parsed]_vars

\* In one run the oracle was asked about one message and an unparsable
\* message went through process_email without a request.
C19_Witness ==
    /\ MessageProcessed
    /\ Unparsable
    /\ decision = "False"
    /\ request = <<>>
    /\ tally.create = 1
    /\ tally.get = 2

====
